---- MODULE Spec2Model ----
(***************************************************************************)
(* Model of the chunking + retrieval pipeline of the API documentation     *)
(* Q&A assistant: DocumentProcessor.chunk_text (app/services/embeddings.py)*)
(* and the two file-backed index backends, VectorStore (flat L2 index,     *)
(* app/services/vector_store.py) and SimpleVectorStore (TF-IDF,            *)
(* app/services/simple_vector_store.py), driven by the routes of           *)
(* app/api/routes.py.                                                      *)
(***************************************************************************)
EXTENDS Integers, Sequences, FiniteSets, TLC

VARIABLES
    \* ---- chunk_text: one call, one loop iteration per step
    text,           \* the argument `text`, a sequence of characters
    chunk_size,     \* the argument `chunk_size`
    chunk_overlap,  \* the argument `chunk_overlap`
    start,          \* the local `start`
    chunks,         \* the local list `chunks` (strings as character sequences)
    slices,         \* history: the <<start, end>> of every text[start:end] taken
    cpc,            \* position in chunk_text: "entry", "loop", "done"
    \* ---- the index backend instance, its files and the last call's outcome
    backend,        \* which class routes.py imports as VectorStore
    settings,       \* the attribute names the settings object carries
    inst,           \* "none" (no process), "live", "failed" (constructor raised)
    documents,      \* self.documents
    metadatas,      \* self.metadatas
    doc_ids,        \* self.doc_ids
    vectors,        \* faiss: rows of self.index; simple: self.document_vectors
    disk,           \* the persisted files
    added,          \* number of records ever handed to add_documents
    last,           \* the last call: what it was, how it ended, what it returned
    deleted,        \* history: the records a delete_document that returned took out
    \* ---- the HTTP layer: one event loop, the requests of the clients
    loop,           \* the client whose handler occupies the event loop, 0 if none
    req,            \* per client: the request it sent, how far it got, the response
    \* ---- create_metadata: one call
    md,             \* its arguments, and its result once it returned
    \* ---- preprocess_text: one call
    pre             \* its argument, the local `text` (and what it was before
                    \* the last statement), the position in the body

chunkVars == <<text, chunk_size, chunk_overlap, start, chunks, slices, cpc>>
storeVars == <<backend, settings, inst, documents, metadatas, doc_ids,
               vectors, disk, added, last, deleted>>
serveVars == <<loop, req>>
metaVars == <<md, pre>>
vars == <<text, chunk_size, chunk_overlap, start, chunks, slices, cpc,
          backend, settings, inst, documents, metadatas, doc_ids,
          vectors, disk, added, last, deleted, loop, req, md, pre>>

(***************************************************************************)
(* Bounds of the model                                                     *)
(***************************************************************************)
MaxLen == 5          \* longest text handed to chunk_text
MaxChunkSize == 3    \* largest chunk_size (and chunk_overlap) tried
MaxRawLen == 4       \* longest text handed to preprocess_text

Min(a, b) == IF a < b THEN a ELSE b

(***************************************************************************)
(* Strings are sequences of one-character strings.                         *)
(***************************************************************************)
Chars == {"a", " ", ".", "!"}
Whitespace == {" ", "\n", "\t", "\r"}

RECURSIVE SeqsUpTo(_)
SeqsUpTo(n) ==
    IF n = 0 THEN {<<>>}
    ELSE LET shorter == SeqsUpTo(n - 1)
         IN  shorter \cup {Append(s, c) : s \in {t \in shorter : Len(t) = n - 1}, c \in Chars}

\* Python's s[a:b] for 0 <= a: the characters at 0-based positions a .. b-1,
\* with b clamped to len(s).
Slice(s, a, b) ==
    LET hi == Min(b, Len(s))
    IN  IF a >= hi THEN <<>> ELSE SubSeq(s, a + 1, hi)

\* str.strip(): drop leading and trailing whitespace.
RECURSIVE LStrip(_)
LStrip(s) == IF s # <<>> /\ Head(s) \in Whitespace THEN LStrip(Tail(s)) ELSE s
RECURSIVE RStrip(_)
RStrip(s) ==
    IF s # <<>> /\ s[Len(s)] \in Whitespace THEN RStrip(SubSeq(s, 1, Len(s) - 1)) ELSE s
Strip(s) == LStrip(RStrip(s))

\* str.rfind(p) for a two-character pattern p: the largest 0-based offset at
\* which p occurs in s, or -1.
RFind(s, p) ==
    LET hits == {i \in 0 .. Len(s) - 2 : s[i + 1] = p[1] /\ s[i + 2] = p[2]}
    IN  IF hits = {} THEN -1 ELSE CHOOSE i \in hits : \A j \in hits : j <= i

\* The sentence terminators, in the order the loop tries them.
Puncts == << <<".", " ">>, <<".", "\n">>, <<"!", " ">>, <<"!", "\n">>,
             <<"?", " ">>, <<"?", "\n">> >>

\* The for-loop with rfind run over text[start:] rather than text[start:end].
BoundaryEndOverRest(t, st, en) ==
    LET window == Slice(t, st, Len(t))
        found  == {k \in 1 .. Len(Puncts) : RFind(window, Puncts[k]) # -1}
    IN  IF found = {} THEN en
        ELSE LET k == CHOOSE x \in found : \A y \in found : x <= y
             IN  st + RFind(window, Puncts[k]) + Len(Puncts[k])

\* The for-loop over the terminators: the end of the window [st, en), moved to
\* just after the last occurrence of the first terminator that occurs in it.
BoundaryEnd(t, st, en) ==
    LET window == Slice(t, st, en)
        found  == {k \in 1 .. Len(Puncts) : RFind(window, Puncts[k]) # -1}
    IN  IF found = {} THEN en
        ELSE LET k == CHOOSE x \in found : \A y \in found : x <= y
             IN  st + RFind(window, Puncts[k]) + Len(Puncts[k])

\* `end` of one iteration of the while loop that begins at `st`.
WindowEnd(t, size, st) ==
    LET en == st + size
    IN  IF en < Len(t) THEN BoundaryEnd(t, st, en) ELSE en

\* `start` after one iteration of the while loop.
NextStart(en, overlap) == en - overlap

\* The guard commented "Prevent infinite loop".
LoopGuard(st, n_chunks) == st <= 0 /\ n_chunks > 0

\* Exploration stops once a start value has come back: the loop is
\* deterministic in `start`, so from there the run repeats itself for ever.
StartRepeated ==
    \E i, j \in 1 .. Len(slices) : i < j /\ slices[i][1] = slices[j][1]

(***************************************************************************)
(* DocumentProcessor.preprocess_text                                       *)
(***************************************************************************)
\* The characters of the raw texts: a letter and the whitespace the body
\* names or splits on.
RawChars == {"a", " ", "\n", "\r", "\t"}

RECURSIVE RawTexts(_)
RawTexts(n) ==
    IF n = 0 THEN {<<>>}
    ELSE LET shorter == RawTexts(n - 1)
         IN  shorter \cup {Append(s, c) : s \in {t \in shorter : Len(t) = n - 1},
                                          c \in RawChars}

\* str.split(" "): cut at every single space, empty pieces kept.
RECURSIVE SplitAtSpaces(_)
SplitAtSpaces(s) ==
    IF \A i \in 1 .. Len(s) : s[i] # " " THEN <<s>>
    ELSE LET i == CHOOSE x \in 1 .. Len(s) :
                      s[x] = " " /\ \A y \in 1 .. x - 1 : s[y] # " "
         IN  <<SubSeq(s, 1, i - 1)>> \o SplitAtSpaces(SubSeq(s, i + 1, Len(s)))

\* str.split() without a separator: the maximal runs of non-whitespace
\* characters, in order; no empty piece, [] for an empty or blank string.
Split(s) ==
    LET starts == {i \in 1 .. Len(s) :
                     s[i] \notin Whitespace /\ (i = 1 \/ s[i - 1] \in Whitespace)}
        ends   == {i \in 1 .. Len(s) :
                     s[i] \notin Whitespace /\ (i = Len(s) \/ s[i + 1] \in Whitespace)}
        Nth(S, k) == CHOOSE i \in S : Cardinality({j \in S : j <= i}) = k
    IN  [k \in 1 .. Cardinality(starts) |-> SubSeq(s, Nth(starts, k), Nth(ends, k))]

\* sep.join(pieces)
RECURSIVE Join(_, _)
Join(sep, pieces) ==
    IF pieces = <<>> THEN <<>>
    ELSE IF Len(pieces) = 1 THEN pieces[1]
    ELSE pieces[1] \o sep \o Join(sep, Tail(pieces))

\* `p in s` for a non-empty p
Contains(s, p) ==
    \E i \in 1 .. Len(s) - Len(p) + 1 : SubSeq(s, i, i + Len(p) - 1) = p

\* s.replace(p, r) for a non-empty p: the occurrences of p, taken from the
\* left and without overlap, become r.
RECURSIVE Replace(_, _, _)
Replace(s, p, r) ==
    IF Len(s) < Len(p) THEN s
    ELSE IF SubSeq(s, 1, Len(p)) = p
         THEN r \o Replace(SubSeq(s, Len(p) + 1, Len(s)), p, r)
         ELSE <<Head(s)>> \o Replace(Tail(s), p, r)

\* text.replace('\r\n', '\n').replace('\r', '\n')
NormalizeLineEndings(s) == Replace(Replace(s, <<"\r", "\n">>, <<"\n">>), <<"\r">>, <<"\n">>)

\* while '\n\n\n' in text: text = text.replace('\n\n\n', '\n\n')
RECURSIVE CollapseBlankLines(_)
CollapseBlankLines(s) ==
    IF Contains(s, <<"\n", "\n", "\n">>)
    THEN CollapseBlankLines(Replace(s, <<"\n", "\n", "\n">>, <<"\n", "\n">>))
    ELSE s

\* No call of preprocess_text is under way.
PreIdle == pre = [arg |-> <<>>, text |-> <<>>, prev |-> <<>>, pc |-> "idle"]

\* A call of preprocess_text about to run.
PreInit ==
    pre \in {[arg |-> t, text |-> t, prev |-> <<>>, pc |-> "entry"] :
               t \in RawTexts(MaxRawLen)}

\* text = ' '.join(text.split())
PreJoin ==
    /\ pre.pc = "entry"
    /\ pre' = [pre EXCEPT !.text = Join(<<" ">>, Split(pre.text)), !.prev = pre.text,
                         !.pc = "joined"]

\* text = text.replace('\r\n', '\n').replace('\r', '\n')
PreNormalize ==
    /\ pre.pc = "joined"
    /\ pre' = [pre EXCEPT !.text = NormalizeLineEndings(pre.text), !.prev = pre.text,
                         !.pc = "normalized"]

\* the while loop over '\n\n\n', run to its end
PreCollapse ==
    /\ pre.pc = "normalized"
    /\ pre' = [pre EXCEPT !.text = CollapseBlankLines(pre.text), !.prev = pre.text,
                         !.pc = "collapsed"]

\* return text.strip()
PreReturn ==
    /\ pre.pc = "collapsed"
    /\ pre' = [pre EXCEPT !.text = Strip(pre.text), !.prev = pre.text, !.pc = "done"]

(***************************************************************************)
(* DocumentProcessor.create_metadata                                       *)
(***************************************************************************)
MaxChunks == 3       \* most chunks of one document in a create_metadata call

\* Python's None where a doc_id string is expected (no doc id is spelled so).
NoneId == "<None>"

\* An `additional_metadata` argument: None, or a dict (a function from keys).
NoneExtra == [none |-> TRUE, map |-> <<>>]
MapExtra(m) == [none |-> FALSE, map |-> m]

\* `if doc_id:` is true of neither None nor the empty string.
TruthyInverted(v) == v = NoneId \/ v = ""
TruthyStr(v) == v # NoneId /\ v # ""

\* `if additional_metadata:` is true of neither None nor the empty dict.
TruthyMap(e) == ~e.none /\ DOMAIN e.map # {}

\* dict.update with the existing keys kept (the merge of setdefault).
UpdateKeepsOld(m, e) == m @@ e

\* metadata.update(e): the keys of e are set to e's values, the others stay.
Update(m, e) == e @@ m

CreateMetadata(chunk_index, total_chunks, doc_id, additional_metadata) ==
    LET metadata == [chunk_index |-> chunk_index, total_chunks |-> total_chunks]
        with_id  == IF TruthyStr(doc_id) THEN Update(metadata, [doc_id |-> doc_id])
                    ELSE metadata
    IN  IF TruthyMap(additional_metadata)
        THEN Update(with_id, additional_metadata.map)
        ELSE with_id

\* The doc_id and additional_metadata arguments tried.
MetaDocIds == {"d1", "", NoneId}
Extras ==
    {NoneExtra, MapExtra(<<>>), MapExtra([section |-> "auth"]),
     MapExtra([doc_id |-> "x"]), MapExtra([chunk_index |-> 99]),
     MapExtra([total_chunks |-> 99, section |-> "auth"])}

\* No call of create_metadata is under way.
MetaIdle ==
    md = [chunk_index |-> 0, total_chunks |-> 1, doc_id |-> NoneId,
          extra |-> NoneExtra, result |-> <<>>, pc |-> "idle"]

\* A call of create_metadata about to run.
MetaInit ==
    /\ md \in [chunk_index : 0 .. MaxChunks - 1, total_chunks : 1 .. MaxChunks,
                doc_id : MetaDocIds, extra : Extras, result : {<<>>},
                pc : {"entry"}]
    /\ md.chunk_index < md.total_chunks

\* create_metadata(chunk_index, total_chunks, doc_id, additional_metadata)
CreateMetadataCall ==
    /\ md.pc = "entry"
    /\ md' = [md EXCEPT
                !.result = CreateMetadata(md.chunk_index, md.total_chunks,
                                          md.doc_id, md.extra),
                !.pc = "done"]
    /\ UNCHANGED pre

(***************************************************************************)
(* The requests of the HTTP layer                                          *)
(***************************************************************************)
Clients == {1, 2}

\* A client's request: the route (kind), how far its handling got (pc), the
\* response status, the request body (d, n, t, extra for an upload; qlen, t
\* for a question) and what its handler did (base: the index.ntotal the auto
\* ids of an upload are made from; calls: the steps it took).
Request(kind, pc, d, n, t, extra, qlen) ==
    [kind |-> kind, pc |-> pc, status |-> 0, d |-> d, n |-> n, t |-> t,
     extra |-> extra, qlen |-> qlen, base |-> 0, calls |-> {}]
NoRequest == Request("none", "idle", "", 0, 0, NoneExtra, 0)

\* No request was sent, no handler runs.
ServeIdle ==
    /\ loop = 0
    /\ req = [c \in Clients |-> NoRequest]

\* No call of chunk_text is under way.
ChunkIdle ==
    /\ text = <<>>
    /\ chunk_size = 1
    /\ chunk_overlap = 0
    /\ start = 0
    /\ chunks = <<>>
    /\ slices = <<>>
    /\ cpc = "done"

\* No index instance takes part in a run of chunk_text.
StoreIdle ==
    /\ backend = "simple"
    /\ settings = {}
    /\ inst = "none"
    /\ documents = <<>>
    /\ metadatas = <<>>
    /\ doc_ids = <<>>
    /\ vectors = <<>>
    /\ disk = <<>>
    /\ added = 0
    /\ last = <<>>
    /\ deleted = {}

ChunkInit ==
    /\ text \in SeqsUpTo(MaxLen)
    /\ chunk_size \in 1 .. MaxChunkSize
    /\ chunk_overlap \in 0 .. MaxChunkSize
    /\ start = 0
    /\ chunks = <<>>
    /\ slices = <<>>
    /\ cpc = "entry"
    /\ StoreIdle
    /\ ServeIdle
    /\ MetaIdle
    /\ PreIdle

\* len(text) <= chunk_size: return [text]
ChunkSingle ==
    /\ cpc = "entry"
    /\ Len(text) <= chunk_size
    /\ chunks' = <<text>>
    /\ cpc' = "done"
    /\ UNCHANGED <<text, chunk_size, chunk_overlap, start, slices>>
    /\ UNCHANGED <<storeVars, serveVars, metaVars>>

\* otherwise: chunks = [], start = 0 and on to the while loop
ChunkEnter ==
    /\ cpc = "entry"
    /\ Len(text) > chunk_size
    /\ chunks' = <<>>
    /\ start' = 0
    /\ cpc' = "loop"
    /\ UNCHANGED <<text, chunk_size, chunk_overlap, slices>>
    /\ UNCHANGED <<storeVars, serveVars, metaVars>>

\* one iteration of `while start < len(text)`
ChunkStep ==
    /\ cpc = "loop"
    /\ start < Len(text)
    /\ ~StartRepeated
    /\ LET en == WindowEnd(text, chunk_size, start)
           st == NextStart(en, chunk_overlap)
       IN  /\ chunks' = Append(chunks, Strip(Slice(text, start, en)))
           /\ slices' = Append(slices, <<start, en>>)
           /\ start' = st
           /\ cpc' = IF LoopGuard(st, Len(chunks) + 1) THEN "done" ELSE "loop"
    /\ UNCHANGED <<text, chunk_size, chunk_overlap>>
    /\ UNCHANGED <<storeVars, serveVars, metaVars>>

\* the while condition fails: return chunks
ChunkExit ==
    /\ cpc = "loop"
    /\ start >= Len(text)
    /\ cpc' = "done"
    /\ UNCHANGED <<text, chunk_size, chunk_overlap, start, chunks, slices>>
    /\ UNCHANGED <<storeVars, serveVars, metaVars>>

ChunkNext ==
    \/ ChunkSingle
    \/ ChunkEnter
    \/ ChunkStep
    \/ ChunkExit

SpecChunk == ChunkInit /\ [][ChunkNext]_vars

\* One call of create_metadata, nothing else running.
InitMeta ==
    /\ MetaInit
    /\ PreIdle
    /\ ChunkIdle
    /\ StoreIdle
    /\ ServeIdle

NextMeta ==
    /\ CreateMetadataCall
    /\ UNCHANGED <<chunkVars, storeVars, serveVars>>

SpecMeta == InitMeta /\ [][NextMeta]_vars

\* One call of preprocess_text, nothing else running.
InitPre ==
    /\ PreInit
    /\ MetaIdle
    /\ ChunkIdle
    /\ StoreIdle
    /\ ServeIdle

NextPre ==
    /\ \/ PreJoin
       \/ PreNormalize
       \/ PreCollapse
       \/ PreReturn
    /\ UNCHANGED <<md, chunkVars, storeVars, serveVars>>

SpecPre == InitPre /\ [][NextPre]_vars

\* The call runs on: the interpreter executes the next statement of the body.
SpecPreLive == SpecPre /\ WF_vars(NextPre)

(***************************************************************************)
(* The index backends                                                      *)
(***************************************************************************)
MaxRecords == 2      \* records handed to add_documents over a run
BatchSizes == {1, 2} \* chunks of one upload
TopKs == {1, 2}      \* the top_k values asked for

\* The fields class Settings declares.
SettingsFields ==
    {"app_name", "app_version", "debug", "openai_api_key", "openai_model",
     "embedding_model", "max_tokens", "temperature", "vector_store_directory",
     "collection_name", "chunk_size", "chunk_overlap", "top_k_results",
     "rate_limit_per_minute", "enable_metrics", "log_level"}

\* settings.<name>: reading an attribute the object does not carry raises
\* AttributeError.
HasSetting(name) == name \in settings

\* Chunk contents.  Content 0 consists of English stop words only; content
\* t >= 1 carries the index terms t and t + 1.
Texts == {0, 1}
Tokens(t) == IF t = 0 THEN {} ELSE {t, t + 1}

\* doc ids an upload request may carry; "" stands for an absent or empty doc_id.
DocIds == {"d1", ""}

\* f"doc_{n}" and f"{doc_id}_chunk_{i}": two formats that never yield the same
\* string, each one-to-one in its arguments.
AutoId(n) == [kind |-> "doc", doc |-> "", n |-> n]
ChunkId(d, i) == [kind |-> "chunk", doc |-> d, n |-> i]

\* A stored text, metadata, id or vector row carries, besides its value, the
\* number r of the record it was handed in with (history only: no code reads r).
DocOf(t, r) == [t |-> t, r |-> r]
MetaOf(d, i, n, r) == Update(CreateMetadata(i, n, d, NoneExtra), [r |-> r])
IdOf(id, r) == [id |-> id, r |-> r]
RowOf(doc) == [t |-> doc.t, r |-> doc.r]

\* self.document_vectors = None / a matrix with one row per fitted document;
\* the rows of a faiss index are always a matrix.
NoVectors == [none |-> TRUE, rows |-> <<>>]
Matrix(rows) == [none |-> FALSE, rows |-> rows]
RowsOf(docs) == [i \in 1 .. Len(docs) |-> RowOf(docs[i])]

\* list.pop(idx), idx 0-based
Pop(s, idx) == [i \in 1 .. Len(s) - 1 |-> IF i <= idx THEN s[i] ELSE s[i + 1]]

\* `doc_id in self.doc_ids` and self.doc_ids.index(doc_id) (0-based, first match)
IdPresent(ids, id) == \E i \in 1 .. Len(ids) : ids[i].id = id
IdIndex(ids, id) ==
    (CHOOSE i \in 1 .. Len(ids) :
        ids[i].id = id /\ \A j \in 1 .. i - 1 : ids[j].id # id) - 1

\* The persisted files.  faiss: faiss.index and metadata.pkl; simple:
\* simple_store.pkl.  damage: what is wrong with the files as they lie on the
\* disk, named by the step of _load_index that raises on them ("none" for
\* files as _save_index wrote them).
NoFiles ==
    [index_exists |-> FALSE, index |-> <<>>,
     meta_exists |-> FALSE,
     meta |-> [documents |-> <<>>, metadatas |-> <<>>, doc_ids |-> <<>>,
               document_vectors |-> NoVectors],
     damage |-> "none"]

\* get_collection_stats()["total_documents"]: index.ntotal, resp. len(documents)
TotalDocuments ==
    IF backend = "faiss" THEN Len(vectors.rows) ELSE Len(documents)

\* The argument of a call: the id of delete_document, query and top_k of search.
SearchArg(q, k) == [id |-> AutoId(0), q |-> q, k |-> k]
DeleteArg(id) == [id |-> id, q |-> 0, k |-> 0]
NoArg == [id |-> AutoId(0), q |-> 0, k |-> 0]
\* For a construction: where its _load_index failed, "none" when it did not.
LoadArg(fault) == [id |-> AutoId(0), q |-> 0, k |-> 0, load |-> fault]

\* What a call left behind: the call, whether it returned (ok) or raised, the
\* size of its batch (delete: 1 when the id was found; stats: the count it
\* returned), total_documents before it, whether it asked the embedding
\* provider (or the vectorizer) for vectors, its argument and whether it wrote
\* the files.  What a search returned is SearchResult of its arguments: search
\* changes nothing that SearchResult reads.
Outcome(op, ok, n, before, embedded, arg, saved) ==
    [op |-> op, ok |-> ok, n |-> n, before |-> before, embedded |-> embedded,
     arg |-> arg, saved |-> saved]
NoCall == Outcome("none", TRUE, 0, 0, FALSE, NoArg, FALSE)

\* VectorStore._save_index: faiss.write_index, then pickle.dump of the three
\* lists.  `fault` says where the write fails, if it does.
FaissSave(d, vecs, docs, metas, ids, fault) ==
    IF fault = "save_index" THEN d
    ELSE IF fault = "save_meta"
         THEN [d EXCEPT !.index_exists = TRUE, !.index = vecs.rows]
    ELSE [d EXCEPT !.index_exists = TRUE, !.index = vecs.rows,
                   !.meta_exists = TRUE,
                   !.meta = [documents |-> docs, metadatas |-> metas,
                             doc_ids |-> ids, document_vectors |-> NoVectors],
                   !.damage = "none"]

\* SimpleVectorStore._save_index: one pickle.dump of lists, vectorizer, vectors.
SimpleSave(d, vecs, docs, metas, ids, fault) ==
    IF fault = "save_meta" THEN d
    ELSE [d EXCEPT !.meta_exists = TRUE,
                   !.meta = [documents |-> docs, metadatas |-> metas,
                             doc_ids |-> ids, document_vectors |-> vecs],
                   !.damage = "none"]

\* Where the try block of _load_index may raise: reading faiss.index, opening
\* or unpickling the blob, or one of the data[...] lookups (a blob that lacks
\* the key).  The lookups come in the order of the assignments.
LoadSteps ==
    <<"read_index", "unpickle", "key_documents", "key_metadatas", "key_doc_ids",
      "key_vectorizer", "key_vectors", "none">>
StepOf(fault) == CHOOSE i \in 1 .. Len(LoadSteps) : LoadSteps[i] = fault

\* The assignment that follows the lookup `key` was reached before `fault`.
Assigned(key, fault) == StepOf(key) < StepOf(fault)

\* The files _load_index looks for are there.
FilesExist(d) ==
    IF backend = "faiss" THEN d.index_exists /\ d.meta_exists ELSE d.meta_exists

\* The faults a backend's _load_index can meet on damaged files.
LoadFaults ==
    IF backend = "faiss"
    THEN {"none", "read_index", "unpickle", "key_documents", "key_metadatas",
          "key_doc_ids"}
    ELSE {"none", "unpickle", "key_documents", "key_metadatas", "key_doc_ids",
          "key_vectorizer", "key_vectors"}

\* VectorStore._load_index: the instance a constructor builds from the files.
\* The except branch puts a fresh index in place and leaves the lists as the
\* assignments before the fault made them.
FaissLoad(d, fault) ==
    IF d.index_exists /\ d.meta_exists
    THEN [documents |-> IF Assigned("key_documents", fault) THEN d.meta.documents ELSE <<>>,
          metadatas |-> IF Assigned("key_metadatas", fault) THEN d.meta.metadatas ELSE <<>>,
          doc_ids   |-> IF Assigned("key_doc_ids", fault) THEN d.meta.doc_ids ELSE <<>>,
          vectors   |-> IF fault = "none" THEN Matrix(d.index) ELSE Matrix(<<>>)]
    ELSE [documents |-> <<>>, metadatas |-> <<>>, doc_ids |-> <<>>,
          vectors |-> Matrix(<<>>)]

\* SimpleVectorStore._load_index.  The except branch only logs: an assignment
\* made before the fault stays.
SimpleLoad(d, fault) ==
    IF d.meta_exists
    THEN [documents |-> IF Assigned("key_documents", fault) THEN d.meta.documents ELSE <<>>,
          metadatas |-> IF Assigned("key_metadatas", fault) THEN d.meta.metadatas ELSE <<>>,
          doc_ids   |-> IF Assigned("key_doc_ids", fault) THEN d.meta.doc_ids ELSE <<>>,
          vectors   |-> IF Assigned("key_vectors", fault) THEN d.meta.document_vectors
                        ELSE NoVectors]
    ELSE [documents |-> <<>>, metadatas |-> <<>>, doc_ids |-> <<>>,
          vectors |-> NoVectors]

LoadIndex(d, fault) ==
    IF backend = "faiss" THEN FaissLoad(d, fault) ELSE SimpleLoad(d, fault)

\* The fault _load_index meets on the files d: none when the files it looks
\* for are not there, as the try block is not entered.
LoadFault(d) == IF FilesExist(d) THEN d.damage ELSE "none"

\* The instance in memory, in the shape LoadIndex gives.
InMemory ==
    [documents |-> documents, metadatas |-> metadatas, doc_ids |-> doc_ids,
     vectors |-> vectors]

\* The directory setting each backend's _load_index and _save_index read.
PersistSetting ==
    IF backend = "faiss" THEN "chroma_persist_directory" ELSE "vector_store_directory"

\* No process yet: routes.py imports one of the two classes as VectorStore.
\* The second settings object is the environment vector_store.py is written
\* for, one whose Settings also declares chroma_persist_directory.
Init ==
    /\ backend \in {"faiss", "simple"}
    /\ settings \in {SettingsFields, SettingsFields \cup {"chroma_persist_directory"}}
    /\ backend = "simple" => settings = SettingsFields
    /\ inst = "none"
    /\ documents = <<>>
    /\ metadatas = <<>>
    /\ doc_ids = <<>>
    /\ vectors = NoVectors
    /\ disk = NoFiles
    /\ added = 0
    /\ last = NoCall
    /\ deleted = {}
    /\ ChunkIdle
    /\ ServeIdle
    /\ MetaIdle
    /\ PreIdle

\* vector_store = VectorStore(): __init__ and _load_index
Construct ==
    /\ inst = "none"
    /\ IF ~HasSetting(PersistSetting)
       THEN /\ inst' = "failed"
            /\ last' = Outcome("construct", FALSE, 0, 0, FALSE, LoadArg("none"), FALSE)
            /\ UNCHANGED <<documents, metadatas, doc_ids, vectors>>
       ELSE /\ inst' = "live"
            /\ documents' = LoadIndex(disk, LoadFault(disk)).documents
            /\ metadatas' = LoadIndex(disk, LoadFault(disk)).metadatas
            /\ doc_ids' = LoadIndex(disk, LoadFault(disk)).doc_ids
            /\ vectors' = LoadIndex(disk, LoadFault(disk)).vectors
            /\ last' = Outcome("construct", TRUE, 0, 0, FALSE,
                               LoadArg(LoadFault(disk)), FALSE)
    /\ UNCHANGED <<backend, settings, disk, added, deleted>>
    /\ UNCHANGED <<chunkVars, serveVars, metaVars>>

\* The process ends; the files stay.
Shutdown ==
    /\ inst = "live"
    /\ inst' = "none"
    /\ documents' = <<>>
    /\ metadatas' = <<>>
    /\ doc_ids' = <<>>
    /\ vectors' = NoVectors
    /\ last' = NoCall
    /\ UNCHANGED <<backend, settings, disk, added, deleted>>
    /\ UNCHANGED <<chunkVars, serveVars, metaVars>>

\* The ids of a batch of n chunks: the route's chunk ids when the request has
\* a doc_id, else the ids add_documents generates from the current size.
BatchIds(d, n, size) ==
    [i \in 1 .. n |-> IF d # "" THEN ChunkId(d, i - 1) ELSE AutoId(size + i - 1)]

\* NewDocs with the last text of the batch left out (an off-by-one range).
NewDocsDropLast(texts) == [i \in 1 .. Len(texts) - 1 |-> DocOf(texts[i], added + i)]

\* The texts of a batch as stored: documents.extend(texts)
NewDocs(texts) == [i \in 1 .. Len(texts) |-> DocOf(texts[i], added + i)]
NewMetas(d, n) == [i \in 1 .. n |-> MetaOf(d, i - 1, n, added + i)]
NewIds(d, n, size) == [i \in 1 .. n |-> IdOf(BatchIds(d, n, size)[i], added + i)]

\* TfidfVectorizer.fit_transform: the vocabulary of the corpus; it raises
\* ValueError (empty vocabulary) when no document has an index term.
Vocabulary(rows) == UNION {Tokens(rows[i].t) : i \in 1 .. Len(rows)}
FitFails(docs) == Vocabulary(docs) = {}

\* VectorStore.add_documents.  fault: "embed" (the embedding provider raises),
\* "save_index" / "save_meta" (a write of _save_index raises), "none".
FaissAdd(texts, d, fault) ==
    LET n == Len(texts)
        before == TotalDocuments
    IN  IF fault = "embed"
        THEN /\ UNCHANGED <<documents, metadatas, doc_ids, vectors, disk>>
             /\ last' = Outcome("add", FALSE, n, before, TRUE, NoArg, FALSE)
        ELSE /\ vectors' = Matrix(vectors.rows \o RowsOf(NewDocs(texts)))
             /\ documents' = documents \o NewDocs(texts)
             /\ metadatas' = metadatas \o NewMetas(d, n)
             /\ doc_ids' = doc_ids \o NewIds(d, n, Len(vectors.rows))
             /\ disk' = FaissSave(disk, vectors', documents', metadatas', doc_ids', fault)
             /\ last' = Outcome("add", fault = "none", n, before, TRUE, NoArg, fault = "none")

\* SimpleVectorStore.add_documents.  fault: "save_meta" (the write raises), "none".
SimpleAdd(texts, d, fault) ==
    LET n == Len(texts)
        before == TotalDocuments
    IN  /\ documents' = documents \o NewDocs(texts)
        /\ metadatas' = metadatas \o NewMetas(d, n)
        /\ doc_ids' = doc_ids \o NewIds(d, n, Len(documents))
        /\ IF FitFails(documents')
           THEN /\ UNCHANGED <<vectors, disk>>
                /\ last' = Outcome("add", FALSE, n, before, TRUE, NoArg, FALSE)
           ELSE /\ vectors' = Matrix(RowsOf(documents'))
                /\ disk' = SimpleSave(disk, vectors', documents', metadatas', doc_ids', fault)
                /\ last' = Outcome("add", fault = "none", n, before, TRUE, NoArg, fault = "none")

\* The failures a call of Spec may meet: the embedding provider raising (faiss).
\* The vectorizer raises by itself, on a corpus without index terms.
Faults == IF backend = "faiss" THEN {"none", "embed"} ELSE {"none"}

\* upload_document -> add_documents(chunks, metadatas, chunk_ids)
AddDocuments ==
    /\ inst = "live"
    /\ \E n \in BatchSizes, d \in DocIds, fault \in Faults :
         /\ added + n <= MaxRecords
         /\ \E texts \in [1 .. n -> Texts] :
              IF backend = "faiss" THEN FaissAdd(texts, d, fault)
              ELSE SimpleAdd(texts, d, fault)
         /\ added' = added + n
    /\ UNCHANGED <<backend, settings, inst, deleted>>
    /\ UNCHANGED <<chunkVars, serveVars, metaVars>>

\* VectorStore._rebuild_index, entered with the three lists already popped.
FaissRebuild(id, fault) ==
    IF documents' = <<>>
    THEN /\ vectors' = Matrix(<<>>)
         /\ UNCHANGED disk
         /\ last' = Outcome("delete", TRUE, 1, TotalDocuments, FALSE, DeleteArg(id), FALSE)
    ELSE IF fault = "embed"
    THEN /\ UNCHANGED <<vectors, disk>>
         /\ last' = Outcome("delete", FALSE, 1, TotalDocuments, TRUE, DeleteArg(id), FALSE)
    ELSE /\ vectors' = Matrix(RowsOf(documents'))
         /\ disk' = FaissSave(disk, vectors', documents', metadatas', doc_ids', fault)
         /\ last' = Outcome("delete", fault = "none", 1, TotalDocuments, TRUE,
                            DeleteArg(id), fault = "none")

\* SimpleVectorStore.delete_document after the pops: refit, then save.
SimpleRefit(id, fault) ==
    IF documents' # <<>> /\ FitFails(documents')
    THEN /\ UNCHANGED <<vectors, disk>>
         /\ last' = Outcome("delete", FALSE, 1, TotalDocuments, TRUE, DeleteArg(id), FALSE)
    ELSE /\ vectors' = IF documents' # <<>> THEN Matrix(RowsOf(documents')) ELSE NoVectors
         /\ disk' = SimpleSave(disk, vectors', documents', metadatas', doc_ids', fault)
         /\ last' = Outcome("delete", fault = "none", 1, TotalDocuments,
                            documents' # <<>>, DeleteArg(id), fault = "none")

\* The ids a caller may ask to delete: those stored, and two that may be absent.
DeleteArgs == {doc_ids[i].id : i \in 1 .. Len(doc_ids)} \cup {AutoId(0), ChunkId("d1", 0)}

\* The else branch of delete_document, with the rebuild and the save of the
\* other branch run all the same.
DeleteNotFoundRebuilds(id) ==
    /\ UNCHANGED <<documents, metadatas, doc_ids>>
    /\ vectors' = IF documents # <<>> THEN Matrix(RowsOf(documents)) ELSE vectors
    /\ disk' = IF backend = "faiss"
               THEN FaissSave(disk, vectors', documents, metadatas, doc_ids, "none")
               ELSE SimpleSave(disk, vectors', documents, metadatas, doc_ids, "none")
    /\ last' = Outcome("delete", TRUE, 0, TotalDocuments, documents # <<>>,
                       DeleteArg(id), TRUE)

\* The else branch of delete_document: the id is not stored, a warning is logged.
DeleteNotFound(id) ==
    /\ UNCHANGED <<documents, metadatas, doc_ids, vectors, disk>>
    /\ last' = Outcome("delete", TRUE, 0, TotalDocuments, FALSE, DeleteArg(id), FALSE)

\* delete_document(doc_id); n = 1 in the outcome when the id was found.
DeleteDocument ==
    /\ inst = "live"
    /\ \E id \in DeleteArgs, fault \in Faults :
         IF IdPresent(doc_ids, id)
         THEN LET idx == IdIndex(doc_ids, id)
              IN  /\ documents' = Pop(documents, idx)
                  /\ metadatas' = Pop(metadatas, idx)
                  /\ doc_ids' = Pop(doc_ids, idx)
                  /\ IF backend = "faiss" THEN FaissRebuild(id, fault)
                     ELSE SimpleRefit(id, fault)
                  /\ deleted' = IF last'.ok THEN deleted \cup {doc_ids[idx + 1].r}
                                ELSE deleted
         ELSE /\ fault = "none"
              /\ DeleteNotFound(id)
              /\ UNCHANGED deleted
    /\ UNCHANGED <<backend, settings, inst, added>>
    /\ UNCHANGED <<chunkVars, serveVars, metaVars>>

\* The embedding provider, as a point on a line, and IndexFlatL2's squared
\* Euclidean distance between a query and a row.
Embed(t) == t
L2(q, row) == (Embed(q) - Embed(row.t)) * (Embed(q) - Embed(row.t))

\* vectorizer.transform([query]) keeps the query's terms that are in the
\* fitted vocabulary; cosine_similarity of it with a row, on the integer scale
\* 0 .. SimScale (4 * cos^2, which orders as cos does).
SimScale == 4
Cosine(q, row, vocab) ==
    LET qt == Tokens(q) \cap vocab
        dt == Tokens(row.t)
        c  == Cardinality(qt \cap dt)
    IN  IF qt = {} \/ dt = {} THEN 0
        ELSE (SimScale * c * c) \div (Cardinality(qt) * Cardinality(dt))

\* 1.0 - similarity
CosineDistance(q, row, vocab) == SimScale - Cosine(q, row, vocab)

\* The distance a backend reports between the query and a row.
Distance(q, rows, i) ==
    IF backend = "faiss" THEN L2(q, rows[i])
    ELSE CosineDistance(q, rows[i], Vocabulary(rows))

\* Whether row j comes before row i in the ranking.  faiss: nearest first,
\* the lower row first among equals.  simple: np.argsort(similarities)[::-1],
\* the ascending order reversed, so the higher row first among equals.
Precedes(q, rows, j, i) ==
    IF backend = "faiss"
    THEN \/ Distance(q, rows, j) < Distance(q, rows, i)
         \/ Distance(q, rows, j) = Distance(q, rows, i) /\ j < i
    ELSE \/ Distance(q, rows, j) < Distance(q, rows, i)
         \/ Distance(q, rows, j) = Distance(q, rows, i) /\ j > i

\* The rows (1-based) in ranking order.
Ranking(q, rows) ==
    [p \in 1 .. Len(rows) |->
        CHOOSE i \in 1 .. Len(rows) :
            Cardinality({j \in 1 .. Len(rows) : Precedes(q, rows, j, i)}) = p - 1]

\* index.search(query_embedding, min(top_k, ntotal)), resp. [...][:top_k]
TopIndices(q, k, rows) == SubSeq(Ranking(q, rows), 1, Min(k, Len(rows)))

\* self.documents[i] / self.metadatas[i] for a row beyond the list: IndexError
OutOfRange(top) ==
    \E p \in 1 .. Len(top) : top[p] > Len(documents) \/ top[p] > Len(metadatas)

\* search without its early return for the empty index.
SearchNoEarlyReturn == FALSE

\* The index is empty as search tests it: index.ntotal == 0, resp.
\* len(self.documents) == 0.
SearchSeesEmpty ==
    IF backend = "faiss" THEN Len(vectors.rows) = 0 ELSE Len(documents) = 0

\* Whether search raises: the embedding provider fails, the vectorizer has no
\* matrix to compare with, or a row has no entry in the lists.
SearchRaises(q, k, fault) ==
    \/ fault = "embed"
    \/ vectors.none
    \/ OutOfRange(TopIndices(q, k, vectors.rows))

\* What search(q, k) returns when it returns: the three lists, entry p of
\* each taken at row top[p]; a distance carries the r of the row it was
\* measured to.
SearchResult(q, k) ==
    IF SearchSeesEmpty THEN [docs |-> <<>>, metas |-> <<>>, dists |-> <<>>]
    ELSE LET top == TopIndices(q, k, vectors.rows)
         IN  [docs  |-> [p \in 1 .. Len(top) |-> documents[top[p]]],
              metas |-> [p \in 1 .. Len(top) |-> metadatas[top[p]]],
              dists |-> [p \in 1 .. Len(top) |->
                            [d |-> Distance(q, vectors.rows, top[p]),
                             r |-> vectors.rows[top[p]].r]]]

\* search(query, top_k)
Search ==
    /\ inst = "live"
    /\ \E q \in Texts, k \in TopKs, fault \in Faults \cap {"none", "embed"} :
         IF SearchSeesEmpty
         THEN /\ fault = "none"
              /\ last' = Outcome("search", TRUE, 0, TotalDocuments, FALSE,
                                 SearchArg(q, k), FALSE)
         ELSE last' = Outcome("search", ~SearchRaises(q, k, fault), 0, TotalDocuments,
                              TRUE, SearchArg(q, k), FALSE)
    /\ UNCHANGED <<backend, settings, inst, documents, metadatas, doc_ids,
                   vectors, disk, added, deleted>>
    /\ UNCHANGED <<chunkVars, serveVars, metaVars>>

\* get_collection_stats()
Stats ==
    /\ inst = "live"
    /\ last' = Outcome("stats", TRUE, TotalDocuments, TotalDocuments, FALSE,
                       NoArg, FALSE)
    /\ UNCHANGED <<backend, settings, inst, documents, metadatas, doc_ids,
                   vectors, disk, added, deleted>>
    /\ UNCHANGED <<chunkVars, serveVars, metaVars>>

Next ==
    \/ Construct
    \/ Shutdown
    \/ AddDocuments
    \/ DeleteDocument
    \/ Search
    \/ Stats

Spec == Init /\ [][Next]_vars

(***************************************************************************)
(* Construction over files found on the disk                               *)
(***************************************************************************)
\* The files a run that stored the chunks `texts` of one upload left behind.
FilesOf(texts, d) ==
    LET n     == Len(texts)
        docs  == [i \in 1 .. n |-> DocOf(texts[i], i)]
        metas == [i \in 1 .. n |-> MetaOf(d, i - 1, n, i)]
        ids   == [i \in 1 .. n |-> IdOf(BatchIds(d, n, 0)[i], i)]
    IN  IF backend = "faiss"
        THEN FaissSave(NoFiles, Matrix(RowsOf(docs)), docs, metas, ids, "none")
        ELSE SimpleSave(NoFiles, Matrix(RowsOf(docs)), docs, metas, ids, "none")

\* A process about to start over a data directory that is empty, or holds the
\* files of an earlier run, intact or damaged since.
LoadInit ==
    /\ backend \in {"faiss", "simple"}
    /\ settings \in {SettingsFields, SettingsFields \cup {"chroma_persist_directory"}}
    /\ backend = "simple" => settings = SettingsFields
    /\ inst = "none"
    /\ documents = <<>>
    /\ metadatas = <<>>
    /\ doc_ids = <<>>
    /\ vectors = NoVectors
    /\ \E n \in 0 .. MaxRecords, d \in DocIds :
         \E texts \in [1 .. n -> Texts], damage \in LoadFaults :
           /\ n = 0 => (damage = "none" /\ d = "")
           /\ (n > 0 /\ backend = "simple") => \E i \in 1 .. n : texts[i] # 0
           /\ disk = IF n = 0 THEN NoFiles
                     ELSE [FilesOf(texts, d) EXCEPT !.damage = damage]
           /\ added = n
    /\ last = NoCall
    /\ deleted = {}
    /\ ChunkIdle
    /\ ServeIdle
    /\ MetaIdle
    /\ PreIdle

LoadNext ==
    \/ Construct
    \/ Shutdown
    \/ Search
    \/ Stats

SpecLoad == LoadInit /\ [][LoadNext]_vars

\* Where inside _save_index the process may die with a file half written or
\* one file written and the other not: in faiss.write_index, between it and
\* the open of metadata.pkl, in pickle.dump.
CrashPoints == {"in_index", "between", "in_meta"}

\* The files a _save_index leaves that died at `point` while saving the rows
\* vecs: a cut-off faiss.index (read_index raises on it), the new faiss.index
\* beside the metadata.pkl of the save before, or the new faiss.index beside
\* a cut-off metadata.pkl (open(.., 'wb') truncates; pickle.load raises).
SaveCrashed(d, vecs, point) ==
    IF point = "in_index"
    THEN [d EXCEPT !.index_exists = TRUE, !.index = <<>>, !.damage = "read_index"]
    ELSE IF point = "between"
    THEN [d EXCEPT !.index_exists = TRUE, !.index = vecs.rows,
                   !.damage = IF d.damage = "read_index" THEN "none" ELSE d.damage]
    ELSE [d EXCEPT !.index_exists = TRUE, !.index = vecs.rows,
                   !.meta_exists = TRUE, !.damage = "unpickle"]

\* VectorStore.add_documents with the process dying inside its _save_index:
\* the memory is gone, the files stay as the crash left them.
AddCrash ==
    /\ inst = "live"
    /\ backend = "faiss"
    /\ \E n \in BatchSizes, point \in CrashPoints :
         /\ added + n <= MaxRecords
         /\ \E texts \in [1 .. n -> Texts] :
              disk' = SaveCrashed(disk, Matrix(vectors.rows \o RowsOf(NewDocs(texts))),
                                  point)
         /\ added' = added + n
    /\ inst' = "none"
    /\ documents' = <<>>
    /\ metadatas' = <<>>
    /\ doc_ids' = <<>>
    /\ vectors' = NoVectors
    /\ last' = NoCall
    /\ UNCHANGED <<backend, settings, deleted>>
    /\ UNCHANGED <<chunkVars, serveVars, metaVars>>

\* The flat nearest-neighbour backend over runs that may die while saving.
CrashInit ==
    /\ Init
    /\ backend = "faiss"

CrashNext ==
    \/ Construct
    \/ AddDocuments
    \/ AddCrash
    \/ Stats

SpecCrash == CrashInit /\ [][CrashNext]_vars

(***************************************************************************)
(* The HTTP layer: the routes of app/api/routes.py, served by one event    *)
(* loop (uvicorn.run of app/main.py starts a single process).  Every       *)
(* handler is an `async def` without an await in its body: once started it *)
(* occupies the loop until it returns, its provider calls included.        *)
(***************************************************************************)
TopKResults == 5          \* settings.top_k_results
MinQuestionLength == 5    \* QuestionRequest.question: min_length

\* What the clients send: question lengths and caller metadata (the default
\* {} and, with a doc_id, a dict that has a doc_id key of its own).
QuestionLens == {4, 5}
ServeExtras(d) ==
    IF d = "" THEN {MapExtra(<<>>)} ELSE {MapExtra(<<>>), MapExtra([doc_id |-> "x"])}

\* The event loop with no handler holding it back.
LoopNeverHeld == TRUE

\* The event loop runs no handler: it can start the next one.
LoopFree == loop = 0

\* Validation of QuestionRequest that lets a question one character short pass.
QuestionValidOffByOne(n) == n >= MinQuestionLength - 1

\* Validation of QuestionRequest: Field(..., min_length=5)
QuestionValid(n) == n >= MinQuestionLength

\* The failures of the generation provider (LLMService.generate_answer).
LlmFaults == {"none", "generate"}

\* The requests once client c's is answered: of an answered request the
\* route, the status and the steps its handler took are kept, not the body.
Responded(c, status, calls) ==
    [req EXCEPT ![c] = [Request(req[c].kind, "done", "", 0, 0, NoneExtra, 0)
                           EXCEPT !.status = status, !.calls = calls]]

\* The metadatas upload_document builds for its n chunks.
RouteMetas(d, n, extra) ==
    [i \in 1 .. n |-> Update(CreateMetadata(i - 1, n, d, extra), [r |-> added + i])]

\* The chunks of a request whose content is t, as the batch handed on.
RouteTexts(n, t) == [i \in 1 .. n |-> t]

\* A client sends a request; it waits until the event loop takes it up.
Send(c) ==
    /\ inst = "live"
    /\ req[c].pc \in {"idle", "done"}
    /\ \/ \E d \in DocIds, n \in BatchSizes, t \in Texts :
          \E extra \in ServeExtras(d) :
            /\ added + n <= MaxRecords
            /\ req' = [req EXCEPT ![c] = Request("upload", "sent", d, n, t, extra, 0)]
       \/ \E qlen \in QuestionLens, t \in Texts :
            req' = [req EXCEPT ![c] = Request("ask", "sent", "", 0, t, NoneExtra, qlen)]
       \/ req' = [req EXCEPT ![c] = Request("stats", "sent", "", 0, 0, NoneExtra, 0)]
    /\ UNCHANGED <<loop, storeVars, chunkVars, metaVars>>

\* An /ask body that fails validation is answered 422; ask_question is not called.
Reject(c) ==
    /\ LoopFree
    /\ req[c].kind = "ask" /\ req[c].pc = "sent"
    /\ ~QuestionValid(req[c].qlen)
    /\ req' = Responded(c, 422, {})
    /\ UNCHANGED <<loop, storeVars, chunkVars, metaVars>>

\* upload_document up to the embedding call of VectorStore.add_documents:
\* the auto ids are made from index.ntotal before the provider is asked.
UploadBegin(c) ==
    /\ LoopFree
    /\ backend = "faiss"
    /\ req[c].kind = "upload" /\ req[c].pc = "sent"
    /\ added + req[c].n <= MaxRecords
    /\ loop' = c
    /\ req' = [req EXCEPT ![c].pc = "embedding", ![c].base = Len(vectors.rows),
                          ![c].calls = {"ids", "embed"}]
    /\ UNCHANGED <<storeVars, chunkVars, metaVars>>

\* The embedding call returns or raises; add_documents and the handler finish.
UploadFinish(c) ==
    /\ req[c].kind = "upload" /\ req[c].pc = "embedding"
    /\ \E fault \in Faults :
         LET r     == req[c]
             texts == RouteTexts(r.n, r.t)
         IN  IF fault = "embed"
             THEN /\ req' = Responded(c, 500, r.calls)
                  /\ UNCHANGED <<documents, metadatas, doc_ids, vectors, disk>>
             ELSE /\ vectors' = Matrix(vectors.rows \o RowsOf(NewDocs(texts)))
                  /\ documents' = documents \o NewDocs(texts)
                  /\ metadatas' = metadatas \o RouteMetas(r.d, r.n, r.extra)
                  /\ doc_ids' = doc_ids \o NewIds(r.d, r.n, r.base)
                  /\ disk' = FaissSave(disk, vectors', documents', metadatas', doc_ids', "none")
                  /\ req' = Responded(c, 201, r.calls \cup {"save"})
    /\ added' = added + req[c].n
    /\ loop' = 0
    /\ UNCHANGED <<backend, settings, inst, last, deleted, chunkVars, metaVars>>

\* upload_document over SimpleVectorStore: no provider is asked, the handler
\* runs from start to end.
UploadSimple(c) ==
    /\ LoopFree
    /\ backend = "simple"
    /\ req[c].kind = "upload" /\ req[c].pc = "sent"
    /\ added + req[c].n <= MaxRecords
    /\ LET r     == req[c]
           texts == RouteTexts(r.n, r.t)
       IN  /\ documents' = documents \o NewDocs(texts)
           /\ metadatas' = metadatas \o RouteMetas(r.d, r.n, r.extra)
           /\ doc_ids' = doc_ids \o NewIds(r.d, r.n, Len(documents))
           /\ IF FitFails(documents')
              THEN /\ UNCHANGED <<vectors, disk>>
                   /\ req' = Responded(c, 500, {"ids", "fit"})
              ELSE /\ vectors' = Matrix(RowsOf(documents'))
                   /\ disk' = SimpleSave(disk, vectors', documents', metadatas', doc_ids', "none")
                   /\ req' = Responded(c, 201, {"ids", "fit", "save"})
    /\ added' = added + req[c].n
    /\ UNCHANGED <<backend, settings, inst, last, deleted, loop, chunkVars, metaVars>>

\* ask_question up to its first provider call: search returns three empty
\* lists on an empty index and the handler raises 404; else VectorStore asks
\* the embedding provider, SimpleVectorStore searches by itself and the
\* handler goes on to generate_answer.
AskBegin(c) ==
    /\ LoopFree
    /\ req[c].kind = "ask" /\ req[c].pc = "sent"
    /\ QuestionValid(req[c].qlen)
    /\ IF SearchSeesEmpty
       THEN /\ req' = Responded(c, 404, {"search"})
            /\ UNCHANGED loop
       ELSE IF backend = "faiss"
       THEN /\ req' = [req EXCEPT ![c].pc = "embedding", ![c].calls = {"search", "embed"}]
            /\ loop' = c
       ELSE IF SearchRaises(req[c].t, TopKResults, "none")
       THEN /\ req' = Responded(c, 500, {"search"})
            /\ UNCHANGED loop
       ELSE /\ req' = [req EXCEPT ![c].pc = "generating",
                                  ![c].calls = {"search", "generate"}]
            /\ loop' = c
    /\ UNCHANGED <<storeVars, chunkVars, metaVars>>

\* The embedding call of search returns or raises; on to generate_answer.
AskEmbedded(c) ==
    /\ req[c].kind = "ask" /\ req[c].pc = "embedding"
    /\ \E fault \in Faults :
         IF SearchRaises(req[c].t, TopKResults, fault)
         THEN /\ req' = Responded(c, 500, req[c].calls)
              /\ loop' = 0
         ELSE /\ req' = [req EXCEPT ![c].pc = "generating",
                                    ![c].calls = {"search", "embed", "generate"}]
              /\ UNCHANGED loop
    /\ UNCHANGED <<storeVars, chunkVars, metaVars>>

\* generate_answer returns or raises; the Answer carries one source per
\* document search found.
AskGenerated(c) ==
    /\ req[c].kind = "ask" /\ req[c].pc = "generating"
    /\ \E fault \in LlmFaults :
         req' = Responded(c, IF fault = "generate" THEN 500 ELSE 200, req[c].calls)
    /\ loop' = 0
    /\ UNCHANGED <<storeVars, chunkVars, metaVars>>

\* get_stats: get_collection_stats()
StatsServe(c) ==
    /\ LoopFree
    /\ req[c].kind = "stats" /\ req[c].pc = "sent"
    /\ req' = Responded(c, 200, {"stats"})
    /\ UNCHANGED <<loop, storeVars, chunkVars, metaVars>>

ServeNext ==
    \/ Construct
    \/ \E c \in Clients : Send(c)
    \/ \E c \in Clients : Reject(c)
    \/ \E c \in Clients : UploadBegin(c)
    \/ \E c \in Clients : UploadFinish(c)
    \/ \E c \in Clients : UploadSimple(c)
    \/ \E c \in Clients : AskBegin(c)
    \/ \E c \in Clients : AskEmbedded(c)
    \/ \E c \in Clients : AskGenerated(c)
    \/ \E c \in Clients : StatsServe(c)

SpecServe == Init /\ [][ServeNext]_vars

(***************************************************************************)
(* Claims about chunk_text, checked under SpecChunk                        *)
(***************************************************************************)
MultiChunkCase == Len(text) > chunk_size /\ chunk_overlap < chunk_size

\* C1: for every text longer than chunk_size and 0 <= chunk_overlap < chunk_size
\* chunk_text terminates: the loop never comes back to a start value it has
\* already scanned from (the loop is deterministic in start, so a start value
\* that comes back is repeated for ever).
C1_ChunkTerminates == MultiChunkCase => ~StartRepeated

\* The slices taken cover the text: the first starts at 0, each next one
\* starts no later than the end of the one before, the last ends at len(text).
SlicesCover ==
    /\ Len(slices) >= 1
    /\ slices[1][1] = 0
    /\ \A i \in 1 .. Len(slices) - 1 : slices[i + 1][1] <= slices[i][2]
    /\ Min(slices[Len(slices)][2], Len(text)) = Len(text)

\* C9: for every text longer than chunk_size and 0 <= chunk_overlap < chunk_size
\* chunk_text returns at least 2 chunks and the slices it takes cover every
\* character position of the text.
C9_TwoChunksCovering ==
    (cpc = "done" /\ MultiChunkCase) => (Len(chunks) >= 2 /\ SlicesCover)

\* C10: for every text with len(text) <= chunk_size chunk_text returns exactly
\* one chunk, equal to the input trimmed of surrounding whitespace.
C10_SingleChunkTrimmed ==
    (cpc = "done" /\ Len(text) <= chunk_size) => chunks = <<Strip(text)>>

\* C24: for every text, chunk_size >= 1 and chunk_overlap >= 0, every chunk
\* returned on the multi-chunk path has length at most chunk_size: each slice
\* starts at a position >= 0 and ends at most chunk_size after it, so a
\* sentence-boundary cut only moves the end of the window left.
C24_ChunkWithinSize ==
    Len(text) > chunk_size =>
        /\ Len(slices) = Len(chunks)
        /\ \A i \in 1 .. Len(chunks) :
             /\ Len(chunks[i]) <= chunk_size
             /\ slices[i][1] >= 0
             /\ slices[i][2] <= slices[i][1] + chunk_size

\* A finished multi-chunk run in which a sentence boundary cut a window short
\* and a later window was taken at full width.
C24_Witness ==
    /\ cpc = "done"
    /\ Len(text) > chunk_size
    /\ \E i, j \in 1 .. Len(slices) :
         /\ slices[i][2] < slices[i][1] + chunk_size
         /\ slices[i][2] < Len(text)
         /\ Len(chunks[j]) = chunk_size

(***************************************************************************)
(* Claims about preprocess_text, checked under SpecPreLive                 *)
(***************************************************************************)
\* The text with every maximal run of whitespace made one space, read off
\* character by character.
RECURSIVE Squeeze(_)
Squeeze(s) ==
    IF s = <<>> THEN <<>>
    ELSE IF Head(s) \notin Whitespace THEN <<Head(s)>> \o Squeeze(Tail(s))
    ELSE IF Tail(s) # <<>> /\ Head(Tail(s)) \in Whitespace THEN Squeeze(Tail(s))
    ELSE <<" ">> \o Squeeze(Tail(s))

\* s is a row of whitespace-free tokens with one space between neighbours.
SingleSpaced(s) ==
    /\ \A i \in 1 .. Len(s) : s[i] \in Whitespace => s[i] = " "
    /\ s # <<>> => s[1] # " " /\ s[Len(s)] # " "
    /\ \A i \in 1 .. Len(s) - 1 : ~(s[i] = " " /\ s[i + 1] = " ")

\* C21: preprocess_text is total (every call returns) and returns the whitespace-separated tokens of its input
\* joined by single spaces: the result has no leading or trailing whitespace,
\* no newline or carriage return and no two adjacent spaces; an empty or
\* all-whitespace input returns the empty string; and the line-ending
\* normalization and the blank-line collapsing leave the text as it was.
C21_PreprocessText ==
    /\ <>(pre.pc = "done")
    /\ [](pre.pc \in {"normalized", "collapsed"} => pre.text = pre.prev)
    /\ [](pre.pc = "done" =>
            /\ SingleSpaced(pre.text)
            /\ pre.text = Strip(Squeeze(pre.arg))
            /\ (\A i \in 1 .. Len(pre.arg) : pre.arg[i] \in Whitespace)
                  => pre.text = <<>>)

\* preprocess_text returned for two tokens parted by a Windows line ending.
C21_Witness ==
    /\ pre.pc = "done"
    /\ Contains(pre.arg, <<"\r", "\n">>)
    /\ pre.text = <<"a", " ", "a">>

Live == inst = "live"

\* Position i of the three lists (and, for faiss, row i of the index) holds
\* what was handed in together as one record.
Aligned ==
    /\ Len(documents) = Len(metadatas)
    /\ Len(documents) = Len(doc_ids)
    /\ backend = "faiss" => Len(vectors.rows) = Len(documents)
    /\ \A i \in 1 .. Len(documents) :
         /\ metadatas[i].r = documents[i].r
         /\ doc_ids[i].r = documents[i].r
         /\ backend = "faiss" => vectors.rows[i].r = documents[i].r

\* C2: in every state reached by add_documents and delete_document calls the
\* lists documents, metadatas and doc_ids have the same length (for faiss, the
\* length is also the number of stored vectors) and position i of each refers
\* to the record that was added together.
C2_ParallelLists == Live => Aligned

\* A new instance constructed from the files has the same documents,
\* metadatas, doc_ids and number of vectors as the instance in memory.
SnapshotMatches ==
    /\ LoadIndex(disk, "none").documents = documents
    /\ LoadIndex(disk, "none").metadatas = metadatas
    /\ LoadIndex(disk, "none").doc_ids = doc_ids
    /\ Len(LoadIndex(disk, "none").vectors.rows) = Len(vectors.rows)

\* C3: after every add_documents or delete_document call that returns, the
\* files equal the index in memory, also after the delete that removes the
\* last record.
C3_SnapshotAfterMutation ==
    (Live /\ last.op \in {"add", "delete"} /\ last.ok) => SnapshotMatches

\* C4: doc_ids never holds the same id twice.
C4_UniqueIds ==
    Live => \A i, j \in 1 .. Len(doc_ids) : doc_ids[i].id = doc_ids[j].id => i = j

\* C5: a delete_document(id) that finds its id and returns removes exactly one
\* record, the one carrying the id: total_documents goes down by exactly 1,
\* the other records keep their order, and lists and vectors stay aligned.
C5_DeleteRemovesOne ==
    [][(Live /\ last'.op = "delete" /\ last'.ok /\ last'.n = 1)
         => /\ TotalDocuments' = TotalDocuments - 1
            /\ Aligned'
            /\ \E i \in 1 .. Len(doc_ids) :
                 /\ doc_ids[i].id = last'.arg.id
                 /\ documents' = Pop(documents, i - 1)
                 /\ metadatas' = Pop(metadatas, i - 1)
                 /\ doc_ids' = Pop(doc_ids, i - 1)]_vars

\* C6: an add_documents call that returns, with a batch of n texts, raises
\* total_documents by exactly n.
C6_AddRaisesCountByBatch ==
    (Live /\ last.op = "add" /\ last.ok) => TotalDocuments = last.before + last.n

\* Two chunks were added to an empty index and stats would report 2.
C6_Witness ==
    Live /\ last.op = "add" /\ last.ok /\ last.n = 2 /\ last.before = 0
         /\ TotalDocuments = 2

\* What C7 asks of the result of search(q, k) on an index of n records.
GoodResult(q, k, n) ==
    LET res == SearchResult(q, k)
        m   == Min(k, n)
        returned == {res.dists[p].r : p \in 1 .. Len(res.dists)}
    IN  /\ Len(res.docs) = m /\ Len(res.metas) = m /\ Len(res.dists) = m
        /\ \A p \in 1 .. m - 1 : res.dists[p].d <= res.dists[p + 1].d
        /\ \A p \in 1 .. m :
             /\ res.docs[p].r = res.dists[p].r
             /\ res.metas[p].r = res.dists[p].r
        /\ \A i \in 1 .. Len(vectors.rows) :
             vectors.rows[i].r \notin returned
                => \A p \in 1 .. m : Distance(q, vectors.rows, i) >= res.dists[p].d

\* C7: on a non-empty index of size N, search(query, top_k) with top_k >= 1
\* (the provider answering) returns exactly min(top_k, N) triples in ascending
\* order of distance, leaves out no nearer record, and each triple's text,
\* metadata and distance belong to one stored record.
C7_SearchTopK ==
    (Live /\ Len(documents) >= 1)
        => \A q \in Texts, k \in TopKs :
             /\ ~SearchRaises(q, k, "none")
             /\ GoodResult(q, k, Len(documents))

\* Nothing is stored: no text, no vector.
EmptyIndex == documents = <<>> /\ vectors.rows = <<>>

\* C8: search on an empty index returns three empty sequences, for any query
\* and top_k, without raising and without calling the embedding provider.
C8_SearchEmptyIndex ==
    (Live /\ EmptyIndex /\ last.op = "search")
        => /\ last.ok
           /\ ~last.embedded
           /\ SearchResult(last.arg.q, last.arg.k)
                = [docs |-> <<>>, metas |-> <<>>, dists |-> <<>>]

\* A search ran on an index emptied by the delete of its only record.
C8_Witness ==
    Live /\ EmptyIndex /\ last.op = "search" /\ last.ok /\ added >= 1

\* C11: delete_document(id) for an id that is not in doc_ids is a no-op: it
\* returns without raising, leaves documents, metadatas, doc_ids and the
\* stored vectors as they were, does not call the embedding provider (or the
\* vectorizer) and does not rewrite the files.
C11_DeleteAbsentNoOp ==
    [][(Live /\ last'.op = "delete" /\ ~IdPresent(doc_ids, last'.arg.id))
         => /\ last'.ok
            /\ documents' = documents
            /\ metadatas' = metadatas
            /\ doc_ids' = doc_ids
            /\ vectors' = vectors
            /\ disk' = disk
            /\ ~last'.embedded
            /\ ~last'.saved]_vars

\* delete_document was called on a non-empty index with an id no record has.
C11_Witness ==
    /\ Live /\ last.op = "delete" /\ last.ok /\ last.n = 0
    /\ Len(documents) >= 1
    /\ ~IdPresent(doc_ids, last.arg.id)

\* C12: once delete_document, called with a record's id, has returned, no
\* later search that returns (any query, any top_k, also after a restart)
\* has that record among its results.
C12_DeletedNotReturned ==
    (Live /\ last.op = "search" /\ last.ok)
        => LET res == SearchResult(last.arg.q, last.arg.k)
           IN  \A p \in 1 .. Len(res.docs) : res.docs[p].r \notin deleted

\* C22: if add_documents or delete_document raises, the in-memory index is
\* exactly as before the call: documents, metadatas, doc_ids and the stored
\* vectors are unchanged.
C22_RaiseLeavesMemory ==
    [][(last'.op \in {"add", "delete"} /\ ~last'.ok)
          => /\ documents' = documents
             /\ metadatas' = metadatas
             /\ doc_ids' = doc_ids
             /\ vectors' = vectors]_vars

(***************************************************************************)
(* Claims about construction, checked under SpecLoad                       *)
(***************************************************************************)
\* C14: constructing a file-backed index when no persisted state exists
\* completes without raising and yields an empty index: no documents, no
\* metadatas, no ids, total_documents = 0.
C14_ConstructFresh ==
    (last.op = "construct" /\ ~disk.index_exists /\ ~disk.meta_exists)
        => /\ last.ok
           /\ inst = "live"
           /\ documents = <<>> /\ metadatas = <<>> /\ doc_ids = <<>>
           /\ TotalDocuments = 0

\* C15: when loading the persisted state fails at any step (unreadable file,
\* corrupt blob, missing key) the constructor does not raise and the index is
\* empty: documents, metadatas and doc_ids are empty, no vector is stored.
C15_LoadFailureEmpty ==
    (last.op = "construct" /\ FilesExist(disk) /\ disk.damage # "none")
        => /\ last.ok
           /\ inst = "live"
           /\ documents = <<>> /\ metadatas = <<>> /\ doc_ids = <<>>
           /\ vectors.rows = <<>>

(***************************************************************************)
(* Claims about crashes while saving, checked under SpecCrash              *)
(***************************************************************************)
\* C23: a crash at any point inside _save_index of the flat nearest-neighbour
\* backend is not silently trusted: the next construction yields a state where
\* the number of stored vectors equals len(documents) = len(metadatas) =
\* len(doc_ids).
C23_CrashNotTrusted ==
    (Live /\ last.op = "construct")
        => /\ Len(vectors.rows) = Len(documents)
           /\ Len(documents) = Len(metadatas)
           /\ Len(metadatas) = Len(doc_ids)

(***************************************************************************)
(* Claims about the HTTP layer, checked under SpecServe                    *)
(***************************************************************************)
\* C13: an /ask request (with a valid question) handled while the index is
\* empty is answered as a success with no sources, not with an error status.
C13_AskEmptyIndexSucceeds ==
    [][\A c \in Clients :
         (/\ req[c].kind = "ask" /\ req[c].pc = "sent" /\ req[c].qlen >= 5
          /\ EmptyIndex
          /\ req'[c].pc = "done")
            => req'[c].status = 200]_vars

\* The handlers that are between their start and their return.
Running == {c \in Clients : req[c].pc \in {"embedding", "generating"}}

\* C16: calls against the backend are serialized: at no time are two handlers
\* between start and return, and however two add_documents calls without ids
\* are sent and served, the lists and the vectors stay aligned and no auto id
\* is stored twice.
C16_AddsSerialized ==
    /\ Cardinality(Running) <= 1
    /\ Live => Aligned
    /\ \A i, j \in 1 .. Len(doc_ids) :
         (doc_ids[i].id.kind = "doc" /\ doc_ids[i].id = doc_ids[j].id) => i = j

\* An upload without doc_id waits while the handler of another upload without
\* doc_id, its auto ids made, is in its embedding call on a non-empty index.
C16_Witness ==
    \E c1, c2 \in Clients :
        /\ req[c1].kind = "upload" /\ req[c1].d = "" /\ req[c1].pc = "embedding"
        /\ req[c1].base >= 1
        /\ req[c2].kind = "upload" /\ req[c2].d = "" /\ req[c2].pc = "sent"

\* C17: while one request waits on a provider call, a /stats request that has
\* been sent can be taken up and answered.
C17_ProviderOffLoop ==
    \A c1, c2 \in Clients :
        (/\ req[c1].pc \in {"embedding", "generating"}
         /\ req[c2].kind = "stats" /\ req[c2].pc = "sent")
            => ENABLED StatsServe(c2)

\* C18: an /ask request whose question is shorter than 5 characters is
\* answered 422 and nothing else happens for it: no search, no embedding call,
\* no generation call.
C18_ShortQuestionRejected ==
    [][\A c \in Clients :
         (/\ req[c].kind = "ask" /\ req[c].pc = "sent" /\ req[c].qlen < 5
          /\ req'[c] # req[c])
            => /\ req'[c].pc = "done"
               /\ req'[c].status = 422
               /\ req'[c].calls = {}]_vars

\* A short question was rejected although the index holds a record.
C18_Witness ==
    \E c \in Clients :
        /\ req[c].kind = "ask" /\ req[c].pc = "done" /\ req[c].status = 422
        /\ req[c].calls = {}
        /\ Len(documents) >= 1

\* The metadata m reports the document d.
HasDocId(m, d) == "doc_id" \in DOMAIN m /\ m.doc_id = d

\* What an upload of document d answered 201 must have stored: every chunk's
\* metadata reports d, and so does the metadata any search hands back with one
\* of its chunks (search pairs documents[i] with metadatas[i], ask_question
\* makes a Source of each pair).
StoredUnder(d) ==
    /\ \A j \in Len(metadatas) + 1 .. Len(metadatas') : HasDocId(metadatas'[j], d)
    /\ \A i \in 1 .. Len(documents') :
         documents'[i].r > added
            => i <= Len(metadatas') /\ HasDocId(metadatas'[i], d)

\* C19: after an upload with a non-empty doc_id d and any caller metadata,
\* every chunk stored for it has metadata doc_id = d, and so has every source
\* of an /ask answer drawn from that document.
C19_ChunksCarryDocId ==
    [][\A c \in Clients :
         (/\ req[c].kind = "upload" /\ req[c].pc # "done" /\ req[c].d # ""
          /\ req'[c].pc = "done" /\ req'[c].status = 201)
            => StoredUnder(req[c].d)]_vars

\* C19 amended: the same for caller metadata that has no doc_id key of its own.
C19_ChunksCarryDocIdUnlessOverridden ==
    [][\A c \in Clients :
         (/\ req[c].kind = "upload" /\ req[c].pc # "done" /\ req[c].d # ""
          /\ "doc_id" \notin DOMAIN req[c].extra.map
          /\ req'[c].pc = "done" /\ req'[c].status = 201)
            => StoredUnder(req[c].d)]_vars

\* A document d1 of two chunks is stored, its chunks reporting d1.
C19_Witness ==
    /\ Live
    /\ \E i \in 1 .. Len(metadatas) :
         /\ HasDocId(metadatas[i], "d1")
         /\ metadatas[i].total_chunks = 2
         /\ \E j \in 1 .. Len(doc_ids) :
              doc_ids[j].r = metadatas[i].r /\ doc_ids[j].id = ChunkId("d1", 1)

====
